---------------------------- MODULE Spec2Model ----------------------------
(***************************************************************************)
(* Model of haeward/lunar-birthdays.                                       *)
(*                                                                         *)
(*   lunar_birthdays.py  the batch pipeline: load the CSV, cut the year    *)
(*                       range into windows, one ICS file per window       *)
(*   main.py             the single-conversion pipeline: load the CSV,     *)
(*                       one ICS file, one yearly-repeating event a record *)
(*                                                                         *)
(* A run is a sequence of steps of the one control flow of the script; pc  *)
(* is its position.  Strings that the code parses or formats (the CSV      *)
(* fields, the output file names, the warning lines) are sequences of      *)
(* one-character strings.  The lunar calendar library is external: its     *)
(* answer for a lunar (year, month, day) is chosen when the key is first   *)
(* asked and remembered, so that it is a function of the key.              *)
(***************************************************************************)
EXTENDS Integers, Sequences, FiniteSets, TLC

\* ------------------------------------------------------------------ bounds
MaxYears == 3
MaxBatch == 3

\* ----------------------------------------------------------- text helpers
DigitChars == <<"0", "1", "2", "3", "4", "5", "6", "7", "8", "9">>

IsDigit(c) == \E k \in 1..10 : DigitChars[k] = c

DigitVal(c) == (CHOOSE k \in 1..10 : DigitChars[k] = c) - 1

RECURSIVE NatStr(_)
NatStr(n) == IF n < 10 THEN <<DigitChars[n + 1]>>
             ELSE NatStr(n \div 10) \o <<DigitChars[(n % 10) + 1]>>

\* str(n), as an f-string renders an int
Str(n) == IF n < 0 THEN <<"-">> \o NatStr(0 - n) ELSE NatStr(n)

RECURSIVE LStrip(_)
LStrip(s) == IF s # <<>> /\ Head(s) = " " THEN LStrip(Tail(s)) ELSE s

RECURSIVE RStrip(_)
RStrip(s) == IF s # <<>> /\ s[Len(s)] = " " THEN RStrip(SubSeq(s, 1, Len(s) - 1))
             ELSE s

RECURSIVE DigitsVal(_, _)
DigitsVal(s, acc) == IF s = <<>> THEN acc
                     ELSE IF Head(s) = "_" THEN DigitsVal(Tail(s), acc)
                     ELSE DigitsVal(Tail(s), acc * 10 + DigitVal(Head(s)))

\* the body of an integer literal: digits, single underscores between digits
IsIntBody(s) ==
    /\ s # <<>>
    /\ IsDigit(s[1])
    /\ IsDigit(s[Len(s)])
    /\ \A k \in 1..Len(s) : IsDigit(s[k]) \/ s[k] = "_"
    /\ \A k \in 1..(Len(s) - 1) : ~(s[k] = "_" /\ s[k + 1] = "_")

\* int(s) of a str: [ok |-> FALSE] stands for ValueError
ParseInt(s) ==
    LET t == RStrip(LStrip(s))
        signed == t # <<>> /\ Head(t) \in {"+", "-"}
        body == IF signed THEN Tail(t) ELSE t
    IN  IF IsIntBody(body)
        THEN [ok |-> TRUE,
              val |-> IF signed /\ Head(t) = "-" THEN 0 - DigitsVal(body, 0)
                      ELSE DigitsVal(body, 0)]
        ELSE [ok |-> FALSE, val |-> 0]

\* ------------------------------------------------------------------ inputs
\* One CSV data row as csv.DictReader yields it under the header
\* name,year,month,day: a row with fewer than 4 columns has None for the rest.
Row(name, year, month, day, ncols) ==
    [name |-> name, year |-> year, month |-> month, day |-> day, ncols |-> ncols]

RowA == Row("A", Str(1990), Str(12), Str(30), 4)
RowB == Row("B", Str(1985), <<"0">> \o Str(1), <<" ">> \o Str(15), 4)
RowA2 == Row("A", Str(2024), Str(12), Str(30), 4)
RowBadDay == Row("C", Str(1985), Str(1), <<"x", "5">>, 4)
RowBadYear == Row("D", <<"1", "9", "_", "_", "8">>, Str(1), Str(2), 4)
RowBadMonth == Row("E", Str(1985), <<>>, Str(2), 4)
RowShort == Row("F", Str(1985), Str(1), <<>>, 3)

NoFile == [exists |-> FALSE, rows |-> <<>>]

CsvFile(rows) == [exists |-> TRUE, rows |-> rows]

LoadableCsv == {CsvFile(<<>>), CsvFile(<<RowA>>), CsvFile(<<RowA, RowB>>),
                CsvFile(<<RowA, RowA2>>)}

BrokenCsv == {NoFile, CsvFile(<<RowA, RowBadDay>>), CsvFile(<<RowBadYear, RowA>>),
              CsvFile(<<RowBadMonth>>), CsvFile(<<RowA, RowShort>>)}

Prefix == <<"o", "u", "t">>

StartYears == {1999, 2024}

Args(start_year, years, batch_size) ==
    [start_year |-> start_year, years |-> years, batch_size |-> batch_size,
     output_ics_prefix |-> Prefix]

\* the command lines of lunar_birthdays.py
SmallArgs == {Args(s, n, b) : s \in StartYears, n \in 0..MaxYears, b \in 0..MaxBatch}

\* --start-year 2024 --years 120 --batch-size 50
ExampleArgs == Args(2024, 120, 50)

\* main.py takes the output path as it is given
OutputIcs == <<"o", ".", "i", "c", "s">>

\* ------------------------------------------------------------------- state
VARIABLES
    mode,              \* "batch": lunar_birthdays.py, "single": main.py
    argc,              \* len(sys.argv)
    csv,               \* the input file
    args,              \* the parsed command line of the batch script
    pc,                \* position of the control flow
    status,            \* exit status; Running until the process ends
    i,                 \* read_lunar_birthdays: index of the next row
    birthdays,         \* read_lunar_birthdays: the list under construction
    loaded,            \* read_lunar_birthdays has returned
    lunar_birthdays,   \* main: the returned list
    year,              \* main: start of the current window
    end_year,          \* main: end of the current window
    output_file_path,  \* main: name of the current window's file
    cal,               \* generate_ics: the calendar's components
    bi,                \* generate_ics: index of the current birthday
    y,                 \* generate_ics: the current year of the inner loop
    files,             \* the output files on disk: path -> components
    stdout,            \* the printed lines
    oracle,            \* the answers of the lunar calendar library so far
    attempts,          \* history: the projections attempted
    written,           \* history: the file writes
    calls              \* history: the calls of generate_ics / generate_ics_file

vars == <<mode, argc, csv, args, pc, status, i, birthdays, loaded, lunar_birthdays,
          year, end_year, output_file_path, cal, bi, y, files, stdout, oracle,
          attempts, written, calls>>

Running == 0 - 1

Init ==
    /\ \/ /\ mode = "batch"
          /\ argc = 3
          /\ \/ args \in SmallArgs /\ csv \in LoadableCsv \cup BrokenCsv
             \/ args = ExampleArgs /\ csv = CsvFile(<<>>)
       \/ /\ mode = "single"
          /\ argc \in {2, 3}
          /\ args = Args(0, 0, 0)
          /\ csv \in LoadableCsv \cup BrokenCsv
    /\ pc = "start"
    /\ status = Running
    /\ i = 1
    /\ birthdays = <<>>
    /\ loaded = FALSE
    /\ lunar_birthdays = <<>>
    /\ year = 0
    /\ end_year = 0
    /\ output_file_path = <<>>
    /\ cal = <<>>
    /\ bi = 1
    /\ y = 0
    /\ files = <<>>
    /\ stdout = <<>>
    /\ oracle = <<>>
    /\ attempts = <<>>
    /\ written = <<>>
    /\ calls = <<>>

Line(kind, text) == [kind |-> kind, text |-> text, rec |-> 0, year |-> 0, win |-> 0]

Exit(code) == pc' = "exit" /\ status' = code

\* ---------------------------------------------------------------- loading
\* main.py: the argument count check; lunar_birthdays.py: parse_args
Start ==
    /\ pc = "start"
    /\ IF mode = "single" /\ argc # 3
       THEN /\ stdout' = Append(stdout, Line("usage", <<>>))
            /\ Exit(1)
       ELSE /\ pc' = "open"
            /\ UNCHANGED <<stdout, status>>
    /\ UNCHANGED <<mode, argc, csv, args, i, birthdays, loaded, lunar_birthdays,
                   year, end_year, output_file_path, cal, bi, y, files, oracle,
                   attempts, written, calls>>

\* read_lunar_birthdays: open the file
OpenCsv ==
    /\ pc = "open"
    /\ IF csv.exists
       THEN /\ pc' = "rows"
            /\ birthdays' = <<>>
            /\ i' = 1
            /\ UNCHANGED <<stdout, status>>
       ELSE /\ stdout' = Append(stdout, Line("error", <<"not found">>))
            /\ Exit(1)
            /\ UNCHANGED <<birthdays, i>>
    /\ UNCHANGED <<mode, argc, csv, args, loaded, lunar_birthdays,
                   year, end_year, output_file_path, cal, bi, y, files, oracle,
                   attempts, written, calls>>

\* the int() conversions of one row, in the order the dict literal makes them
RowFields(row) == <<row.year, row.month, row.day>>

\* column k of the row is None (the row is short)
IsNone(row, k) == k > row.ncols

\* a loader that does not look at the day
FirstBadBeforeDay(row) ==
    LET bad == {k \in 1..2 : IsNone(row, k + 1) \/ ~ParseInt(RowFields(row)[k]).ok}
    IN  IF bad = {} THEN 0 ELSE CHOOSE k \in bad : \A j \in bad : k <= j

\* the first of year, month, day that int() rejects; 0 when all convert
FirstBad(row) ==
    LET bad == {k \in 1..3 : IsNone(row, k + 1) \/ ~ParseInt(RowFields(row)[k]).ok}
    IN  IF bad = {} THEN 0 ELSE CHOOSE k \in bad : \A j \in bad : k <= j

Birthday(row) ==
    [name |-> row.name, year |-> ParseInt(row.year).val,
     month |-> ParseInt(row.month).val, day |-> ParseInt(row.day).val]

\* read_lunar_birthdays: one iteration of the row loop
ReadRow ==
    /\ pc = "rows"
    /\ i <= Len(csv.rows)
    /\ LET row == csv.rows[i]
           k == FirstBad(row)
       IN  IF k = 0
           THEN /\ birthdays' = Append(birthdays, Birthday(row))
                /\ i' = i + 1
                /\ UNCHANGED <<pc, status, stdout>>
           ELSE /\ stdout' = Append(stdout,
                       Line(IF IsNone(row, k + 1) THEN "traceback" ELSE "error",
                            <<"invalid data">>))
                /\ Exit(1)
                /\ UNCHANGED <<birthdays, i>>
    /\ UNCHANGED <<mode, argc, csv, args, loaded, lunar_birthdays,
                   year, end_year, output_file_path, cal, bi, y, files, oracle,
                   attempts, written, calls>>

\* read_lunar_birthdays returns; main binds lunar_birthdays
ReturnBirthdays ==
    /\ pc = "rows"
    /\ i > Len(csv.rows)
    /\ lunar_birthdays' = birthdays
    /\ loaded' = TRUE
    /\ IF mode = "batch"
       THEN /\ pc' = "window"
            /\ year' = args.start_year
            /\ UNCHANGED <<cal, bi, calls>>
       ELSE /\ pc' = "gen1"
            /\ cal' = <<>>
            /\ bi' = 1
            /\ calls' = Append(calls, [path |-> OutputIcs, start |-> 0, end |-> 0])
            /\ UNCHANGED year
    /\ UNCHANGED <<mode, argc, csv, args, status, i, birthdays,
                   end_year, output_file_path, y, files, stdout, oracle,
                   attempts, written>>

\* ------------------------------------------------------------- projection
NotExist == 0 - 1

\* Converter.Lunar2Solar is outside the repository: a lunar date has either no
\* solar date or one, a day number that lies in the solar year of the lunar
\* year or early in the next one.
Outcomes(key) ==
    {NotExist} \cup {key[1] * 366 + (key[2] - 1) * 30 + key[3] + s : s \in {20, 49}}

\* a projection of the birth year instead of the year of the loop
LunarDateOfBirth(birthday, yr) == <<birthday.year, birthday.month, birthday.day>>

\* Lunar(year, month, day, isleap=False) of the batch script
LunarDate(birthday, yr) == <<yr, birthday.month, birthday.day>>

\* Lunar(birthday['year'], month, day, isleap=False) of main.py
LunarDateSingle(birthday) == <<birthday.year, birthday.month, birthday.day>>

\* the library answers a key it was asked before as it did then
Answers(key) == IF key \in DOMAIN oracle THEN {oracle[key]} ELSE Outcomes(key)

Remember(key, r) == IF key \in DOMAIN oracle THEN oracle ELSE (key :> r) @@ oracle

\* timedelta(days=1)
OneDay == 1

\* the fields create_birthday_event adds (dtstamp, the wall clock, left out);
\* rec and year tell which call made the event
Event(birthday, solar_date, rrule, rec, yr) ==
    [summary |-> <<birthday.name, "'s birthday">>,
     dtstart |-> solar_date,
     dtend |-> solar_date + OneDay,
     rrule |-> rrule,
     rec |-> rec, year |-> yr]

\* the event of lunar_birthdays.py: the rrule line is commented out
BatchEvent(birthday, solar_date, rec, yr) == Event(birthday, solar_date, FALSE, rec, yr)

\* an event of main.py without its rrule
SingleEventOnce(birthday, solar_date, rec) ==
    Event(birthday, solar_date, FALSE, rec, birthday.year)

\* the event of main.py
SingleEvent(birthday, solar_date, rec) ==
    Event(birthday, solar_date, TRUE, rec, birthday.year)

\* f"Warning: Invalid lunar date: {birthday['year']}-{birthday['month']}-{birthday['day']}"
WarningText(yr, month, day) ==
    <<"Warning: Invalid lunar date: ">> \o Str(yr) \o <<"-">> \o Str(month)
        \o <<"-">> \o Str(day)

Warning(birthday, rec, yr, win) ==
    [kind |-> "warning",
     text |-> WarningText(birthday.year, birthday.month, birthday.day),
     rec |-> rec, year |-> yr, win |-> win]

\* --------------------------------------------------------------- batching
Min(a, b) == IF a <= b THEN a ELSE b

\* a window end that forgets the end of the requested range
WindowEndNoMin(yr, a) == yr + a.batch_size - 1

\* end_year = min(year + batch_size - 1, start_year + years - 1)
WindowEnd(yr, a) == Min(yr + a.batch_size - 1, a.start_year + a.years - 1)

\* a name that is a range whatever the window
OutputPathRange(prefix, yr, end) ==
    prefix \o <<"_">> \o Str(yr) \o <<"-">> \o Str(end) \o <<".", "i", "c", "s">>

\* the f-strings that name a window's file
OutputPath(prefix, yr, end) ==
    IF yr = end
    THEN prefix \o <<"_">> \o Str(yr) \o <<".", "i", "c", "s">>
    ELSE prefix \o <<"_">> \o Str(yr) \o <<"-">> \o Str(end) \o <<".", "i", "c", "s">>

\* a calendar carried over from the window before
KeepCalendar(old) == old

\* Calendar(): a calendar with no components
NewCalendar(old) == <<>>

\* range(start_year, start_year + years, batch_size) still has the value yr
InRange(yr, a) == IF a.batch_size > 0 THEN yr < a.start_year + a.years
                  ELSE yr > a.start_year + a.years

\* main: the head of the window loop and the entry of generate_ics
NextWindow ==
    /\ pc = "window"
    /\ IF args.batch_size = 0
       THEN \* range() arg 3 must not be zero: ValueError, uncaught
            /\ stdout' = Append(stdout, Line("traceback", <<"range">>))
            /\ Exit(1)
            /\ UNCHANGED <<end_year, output_file_path, cal, bi, y, calls>>
       ELSE IF InRange(year, args)
       THEN /\ end_year' = WindowEnd(year, args)
            /\ output_file_path' =
                   OutputPath(args.output_ics_prefix, year, WindowEnd(year, args))
            /\ cal' = NewCalendar(cal)
            /\ bi' = 1
            /\ y' = year
            /\ calls' = Append(calls,
                   [path |-> OutputPath(args.output_ics_prefix, year, WindowEnd(year, args)),
                    start |-> year, end |-> WindowEnd(year, args)])
            /\ pc' = "gen"
            /\ UNCHANGED <<stdout, status>>
       ELSE /\ Exit(0)
            /\ UNCHANGED <<end_year, output_file_path, cal, bi, y, calls, stdout>>
    /\ UNCHANGED <<mode, argc, csv, args, i, birthdays, loaded, lunar_birthdays,
                   year, files, oracle, attempts, written>>

\* a handler that swallows DateNotExist without a word
OnNotExistSilent(birthday, rec, yr) ==
    UNCHANGED <<stdout, cal, status>>

\* generate_ics: what the except clause does with DateNotExist
OnNotExist(birthday, rec, yr) ==
    /\ stdout' = Append(stdout, Warning(birthday, rec, yr, year))
    /\ UNCHANGED <<cal, status>>

\* loops the other way round: records inside, years outside
AdvanceYearOuter(rec, yr) ==
    IF rec < Len(lunar_birthdays) THEN <<rec + 1, yr>>
    ELSE IF yr < end_year THEN <<1, yr + 1>>
    ELSE <<rec + 1, year>>

\* generate_ics: the loop position after (rec, yr): years inside, records outside
Advance(rec, yr) ==
    IF yr < end_year THEN <<rec, yr + 1>> ELSE <<rec + 1, year>>

\* generate_ics: one iteration of the inner loop
Project ==
    /\ pc = "gen"
    /\ bi <= Len(lunar_birthdays)
    /\ y <= end_year
    /\ LET birthday == lunar_birthdays[bi]
           key == LunarDate(birthday, y)
       IN  \E r \in Answers(key) :
             /\ oracle' = Remember(key, r)
             /\ attempts' = Append(attempts,
                    [rec |-> bi, year |-> y, win |-> year, key |-> key, result |-> r])
             /\ IF r = NotExist
                THEN OnNotExist(birthday, bi, y)
                ELSE /\ cal' = Append(cal, BatchEvent(birthday, r, bi, y))
                     /\ UNCHANGED <<stdout, status>>
    /\ bi' = Advance(bi, y)[1]
    /\ y' = Advance(bi, y)[2]
    /\ UNCHANGED <<mode, argc, csv, args, pc, i, birthdays, loaded, lunar_birthdays,
                   year, end_year, output_file_path, files, written, calls>>

\* a writer that leaves out a calendar without events
StoreNonEmpty(path, components) ==
    IF components = <<>> THEN files ELSE (path :> components) @@ files

\* open(path, 'wb') and write: the file now holds the calendar
Store(path, components) == (path :> components) @@ files

\* generate_ics: the loops are over, write the file; main prints and steps on
WriteFile ==
    /\ pc = "gen"
    /\ bi > Len(lunar_birthdays)
    /\ files' = Store(output_file_path, cal)
    /\ written' = Append(written,
           [path |-> output_file_path, start |-> year, end |-> end_year,
            events |-> cal])
    /\ stdout' = Append(stdout, Line("generated", output_file_path))
    /\ year' = year + args.batch_size
    /\ pc' = "window"
    /\ UNCHANGED <<mode, argc, csv, args, status, i, birthdays, loaded,
                   lunar_birthdays, end_year, output_file_path, cal, bi, y, oracle,
                   attempts, calls>>

\* ------------------------------------------------------ single conversion
\* generate_ics_file: one iteration of the loop over the birthdays
ProjectSingle ==
    /\ pc = "gen1"
    /\ bi <= Len(lunar_birthdays)
    /\ LET birthday == lunar_birthdays[bi]
           key == LunarDateSingle(birthday)
       IN  \E r \in Answers(key) :
             /\ oracle' = Remember(key, r)
             /\ attempts' = Append(attempts,
                    [rec |-> bi, year |-> birthday.year, win |-> 0, key |-> key,
                     result |-> r])
             /\ IF r = NotExist
                THEN /\ stdout' = Append(stdout, Warning(birthday, bi, birthday.year, 0))
                     /\ UNCHANGED cal
                ELSE /\ cal' = Append(cal, SingleEvent(birthday, r, bi))
                     /\ UNCHANGED stdout
    /\ bi' = bi + 1
    /\ UNCHANGED <<mode, argc, csv, args, pc, status, i, birthdays, loaded,
                   lunar_birthdays, year, end_year, output_file_path, y, files,
                   written, calls>>

\* generate_ics_file writes the file; main prints; the script ends
WriteSingle ==
    /\ pc = "gen1"
    /\ bi > Len(lunar_birthdays)
    /\ files' = Store(OutputIcs, cal)
    /\ written' = Append(written,
           [path |-> OutputIcs, start |-> 0, end |-> 0, events |-> cal])
    /\ stdout' = Append(stdout, Line("generated", OutputIcs))
    /\ Exit(0)
    /\ UNCHANGED <<mode, argc, csv, args, i, birthdays, loaded, lunar_birthdays,
                   year, end_year, output_file_path, cal, bi, y, oracle, attempts,
                   calls>>

Next ==
    \/ Start
    \/ OpenCsv
    \/ ReadRow
    \/ ReturnBirthdays
    \/ NextWindow
    \/ Project
    \/ WriteFile
    \/ ProjectSingle
    \/ WriteSingle

Spec == Init /\ [][Next]_vars

\* ------------------------------------------------------------ properties
Batch == mode = "batch"

\* the command line the claims about windows speak of
Sane == args.years >= 1 /\ args.batch_size >= 1

\* the projections attempted by the generate_ics call of the window starting at w
WinAttempts(w) == SelectSeq(attempts, LAMBDA a : a.win = w)

WinFailures(w) == SelectSeq(attempts, LAMBDA a : a.win = w /\ a.result = NotExist)

WinWarnings(w) == SelectSeq(stdout, LAMBDA l : l.kind = "warning" /\ l.win = w)

\* how often the pair (rec, yr) has been attempted
Tries(rec, yr) == Len(SelectSeq(attempts, LAMBDA a : a.rec = rec /\ a.year = yr))

\* C1: in the batch pipeline a projection that does not exist never aborts the
\* batch: no pair is attempted twice, every attempt so far gave one event or
\* one warning, the warnings of a call are as many as its failed projections,
\* the process never exits with an error once projecting has begun, and a
\* finished call has attempted every pair of records x [start..end] once and
\* wrote records * years - failures events.
C1_NoAbort ==
    Batch =>
      /\ \A k \in 1..Len(attempts) : Tries(attempts[k].rec, attempts[k].year) = 1
      /\ \A k \in 1..Len(calls) :
           LET w == calls[k].start
           IN  /\ Len(WinWarnings(w)) = Len(WinFailures(w))
               /\ Len(WinAttempts(w)) = Len(WinFailures(w))
                     + (IF k <= Len(written) THEN Len(written[k].events)
                        ELSE Len(cal))
      /\ attempts # <<>> => status \in {Running, 0}
      /\ pc = "exit" /\ status = 0 => Len(written) = Len(calls)
      /\ \A k \in 1..Len(written) :
           LET w == written[k]
               n == Len(lunar_birthdays)
           IN  /\ \A rec \in 1..n : \A yr \in w.start..w.end : Tries(rec, yr) = 1
               /\ Len(WinAttempts(w.start)) = n * (w.end - w.start + 1)
               /\ Len(w.events) = n * (w.end - w.start + 1) - Len(WinFailures(w.start))
               /\ Len(files[w.path]) = Len(w.events)

\* a run that finished with success after a call in which a projection failed
\* and another succeeded
C1_Witness ==
    /\ Batch /\ pc = "exit" /\ status = 0
    /\ \E k \in 1..Len(written) :
         /\ Len(WinFailures(written[k].start)) >= 1
         /\ Len(written[k].events) >= 1
         /\ k < Len(written)

\* the windows of the run so far, in the order main made them
Windows == [k \in 1..Len(calls) |-> <<calls[k].start, calls[k].end>>]

\* C2: for years >= 1 and batch size >= 1 the windows are contiguous and
\* disjoint, start at start_year, each holds between 1 and batch_size years,
\* and when the loop is over the last one ends at start_year + years - 1;
\* --start-year 2024 --years 120 --batch-size 50 gives [2024,2073],
\* [2074,2123], [2124,2143].
C2_Windows ==
    Batch /\ Sane =>
      /\ \A k \in 1..Len(calls) :
           /\ calls[k].start = (IF k = 1 THEN args.start_year ELSE calls[k - 1].end + 1)
           /\ calls[k].end - calls[k].start + 1 \in 1..args.batch_size
           /\ calls[k].end <= args.start_year + args.years - 1
      /\ pc = "exit" /\ status = 0 =>
           /\ calls # <<>>
           /\ calls[Len(calls)].end = args.start_year + args.years - 1
           /\ \A yr \in args.start_year..(args.start_year + args.years - 1) :
                Cardinality({k \in 1..Len(calls) :
                               calls[k].start <= yr /\ yr <= calls[k].end}) = 1
      /\ pc = "exit" /\ status = 0 /\ args = ExampleArgs =>
           Windows = << <<2024, 2073>>, <<2074, 2123>>, <<2124, 2143>> >>

\* a finished run over a range that the batch size does not divide
C2_Witness ==
    /\ Batch /\ Sane /\ pc = "exit" /\ status = 0
    /\ Len(calls) >= 2
    /\ calls[Len(calls)].end - calls[Len(calls)].start + 1 < args.batch_size

\* where the output holds an event of record rec for the lunar year yr
Occurrences(rec, yr) ==
    UNION {{<<path, p>> : p \in {q \in 1..Len(files[path]) :
                                   files[path][q].rec = rec /\ files[path][q].year = yr}} :
           path \in DOMAIN files}

RequestedYears == args.start_year..(args.start_year + args.years - 1)

\* C3: when a batch run is over, every record and year of the requested range
\* whose projection succeeded has exactly one event in all the output files,
\* in the file of the window that holds the year, starting on the solar date
\* projected from (year, month, day) and ending one day later, and a failed
\* projection has none; at no time does a file hold an event of a year
\* outside its window.
C3_OneEventPerProjection ==
    Batch /\ Sane =>
      /\ \A k \in 1..Len(written) :
           written[k].path \in DOMAIN files =>
             \A p \in 1..Len(files[written[k].path]) :
               LET e == files[written[k].path][p]
               IN  written[k].start <= e.year /\ e.year <= written[k].end
      /\ pc = "exit" /\ status = 0 =>
           \A rec \in 1..Len(lunar_birthdays) : \A yr \in RequestedYears :
             LET b == lunar_birthdays[rec]
                 key == <<yr, b.month, b.day>>
             IN  /\ key \in DOMAIN oracle
                 /\ key \in DOMAIN oracle /\ oracle[key] = NotExist =>
                      Occurrences(rec, yr) = {}
                 /\ key \in DOMAIN oracle /\ oracle[key] # NotExist =>
                      /\ Cardinality(Occurrences(rec, yr)) = 1
                      /\ \A o \in Occurrences(rec, yr) :
                           LET e == files[o[1]][o[2]]
                           IN  /\ e.dtstart = oracle[key]
                               /\ e.dtend = e.dtstart + 1
                               /\ e.summary = <<b.name, "'s birthday">>
                               /\ \E k \in 1..Len(written) :
                                    /\ written[k].path = o[1]
                                    /\ written[k].start <= yr
                                    /\ yr <= written[k].end

\* a finished run of several windows and two records in which a projection
\* succeeded and one failed
C3_Witness ==
    /\ Batch /\ Sane /\ pc = "exit" /\ status = 0
    /\ Len(written) >= 2
    /\ Len(lunar_birthdays) = 2
    /\ \E a \in DOMAIN attempts : attempts[a].result # NotExist
    /\ \E a \in DOMAIN attempts : attempts[a].result = NotExist

\* C4: the warning of a failed batch projection carries the lunar year that
\* was projected, with the month and the day of the record.
C4_WarningNamesProjectedYear ==
    Batch =>
      \A k \in 1..Len(stdout) :
        stdout[k].kind = "warning" =>
          LET b == lunar_birthdays[stdout[k].rec]
          IN  stdout[k].text = WarningText(stdout[k].year, b.month, b.day)

\* e1 comes before e2 in the order of generate_ics's loops
Before(e1, e2) == e1.rec < e2.rec \/ (e1.rec = e2.rec /\ e1.year < e2.year)

Ordered(events) ==
    \A p \in 1..Len(events) : \A q \in 1..Len(events) :
      p < q => Before(events[p], events[q])

\* the (record, year) pairs of a container, in its order
Pairs(events) == [p \in 1..Len(events) |-> <<events[p].rec, events[p].year>>]

\* C5: in the container under construction and in every file written by the
\* batch pipeline the events are in record order, and in ascending year order
\* within a record; two records over a two-year window of which no projection
\* failed give record 1's two years, then record 2's two years.
C5_EventOrder ==
    Batch =>
      /\ pc = "gen" => Ordered(cal)
      /\ \A path \in DOMAIN files : Ordered(files[path])
      /\ \A k \in 1..Len(written) :
           LET w == written[k]
           IN  Len(lunar_birthdays) = 2 /\ w.end = w.start + 1 /\ Len(w.events) = 4 =>
                 Pairs(w.events) = << <<1, w.start>>, <<1, w.end>>,
                                      <<2, w.start>>, <<2, w.end>> >>

\* a written file of two records over two years in which a projection of the
\* first record was skipped and the three others gave events
C5_Witness ==
    /\ Batch
    /\ \E k \in 1..Len(written) :
         /\ written[k].end = written[k].start + 1
         /\ Pairs(written[k].events) = << <<1, written[k].start>>,
                                          <<2, written[k].start>>,
                                          <<2, written[k].end>> >>

\* ceil(years / batch_size)
PlannedFiles == (args.years + args.batch_size - 1) \div args.batch_size

\* the k-th planned window, from the command line alone
Planned(k) ==
    <<args.start_year + (k - 1) * args.batch_size,
      IF args.start_year + k * args.batch_size - 1 <= args.start_year + args.years - 1
      THEN args.start_year + k * args.batch_size - 1
      ELSE args.start_year + args.years - 1>>

\* C6: for years >= 1 and batch size >= 1 the windows and the files do not
\* depend on what the projections return: the k-th call of generate_ics has
\* the k-th planned window, every finished call has left its file on disk,
\* one file for each, also when it holds no event, and a finished run has
\* written ceil(years / batch_size) files.
C6_FilesIndependentOfProjections ==
    Batch /\ Sane =>
      /\ Len(calls) <= PlannedFiles
      /\ \A k \in 1..Len(calls) : Windows[k] = Planned(k)
      /\ Len(written) = (IF pc = "gen" THEN Len(calls) - 1 ELSE Len(calls))
      /\ \A k \in 1..Len(written) :
           /\ written[k].path = calls[k].path
           /\ written[k].path \in DOMAIN files
      /\ Cardinality(DOMAIN files) = Len(written)
      /\ pc = "exit" /\ status = 0 =>
           /\ Len(written) = PlannedFiles
           /\ Cardinality(DOMAIN files) = PlannedFiles

\* a finished run whose first window lost every projection: its file is
\* there, empty, and a later window has events
C6_Witness ==
    /\ Batch /\ Sane /\ pc = "exit" /\ status = 0
    /\ Len(lunar_birthdays) >= 1
    /\ Len(written) >= 2
    /\ written[1].path \in DOMAIN files
    /\ files[written[1].path] = <<>>
    /\ written[2].path \in DOMAIN files
    /\ files[written[2].path] # <<>>

\* the index of the first c in s, 0 when there is none
RECURSIVE Find(_, _, _)
Find(s, c, k) == IF k > Len(s) THEN 0
                 ELSE IF s[k] = c THEN k ELSE Find(s, c, k + 1)

IcsSuffix == <<".", "i", "c", "s">>

\* the part of a file name between "<prefix>_" and ".ics"; <<>> for a name
\* that is not of that shape
Stem(path) ==
    LET n == Len(args.output_ics_prefix) + 1
    IN  IF /\ Len(path) > n + 4
           /\ SubSeq(path, 1, n) = args.output_ics_prefix \o <<"_">>
           /\ SubSeq(path, Len(path) - 3, Len(path)) = IcsSuffix
        THEN SubSeq(path, n + 1, Len(path) - 4)
        ELSE <<>>

\* the window a file name reads as: <year> or <start>-<end>
Decode(path) ==
    LET stem == Stem(path)
        d == Find(stem, "-", 1)
    IN  IF d = 0
        THEN [ok |-> ParseInt(stem).ok, dash |-> FALSE,
              start |-> ParseInt(stem).val, end |-> ParseInt(stem).val]
        ELSE [ok |-> ParseInt(SubSeq(stem, 1, d - 1)).ok
                       /\ ParseInt(SubSeq(stem, d + 1, Len(stem))).ok,
              dash |-> TRUE,
              start |-> ParseInt(SubSeq(stem, 1, d - 1)).val,
              end |-> ParseInt(SubSeq(stem, d + 1, Len(stem))).val]

\* C7: the file name of a window reads back as that window: it is
\* <prefix>_<year>.ics, without a dash, exactly when the window is one year,
\* and <prefix>_<start>-<end>.ics with the window's start and end otherwise;
\* the windows of one run have different names.
C7_FileNameEncodesWindow ==
    Batch /\ Sane =>
      /\ \A k \in 1..Len(calls) :
           LET c == calls[k]
               n == Decode(c.path)
           IN  /\ n.ok
               /\ n.start = c.start
               /\ n.end = c.end
               /\ n.dash <=> c.start # c.end
      /\ \A j \in 1..Len(calls) : \A k \in 1..Len(calls) :
           j # k => calls[j].path # calls[k].path

\* a run whose last window is a single year after a window of several
C7_Witness ==
    /\ Batch /\ Sane
    /\ Len(written) >= 2
    /\ written[1].start < written[1].end
    /\ written[Len(written)].start = written[Len(written)].end
    /\ ~Decode(written[Len(written)].path).dash

\* a field of the row is not the text of an integer (None, the field of a
\* short row, is not either)
HasBadField(row) ==
    \/ ~ParseInt(row.year).ok
    \/ ~ParseInt(row.month).ok
    \/ ~ParseInt(row.day).ok
    \/ row.ncols < 4

FatalLoad == ~csv.exists \/ \E k \in 1..Len(csv.rows) : HasBadField(csv.rows[k])

\* C8: when the input file is missing or a row, at any position, has a year,
\* month or day that is not an integer, in either pipeline the loader returns
\* no list, the generator is never called, no file is written, the process
\* never gets past the loader and, when it has ended, its status is 1.
C8_FatalLoadAborts ==
    FatalLoad =>
      /\ ~loaded
      /\ lunar_birthdays = <<>>
      /\ calls = <<>>
      /\ attempts = <<>>
      /\ written = <<>>
      /\ DOMAIN files = {}
      /\ pc \in {"start", "open", "rows", "exit"}
      /\ status \in {Running, 1}
      /\ pc = "exit" <=> status = 1

\* a load that ended on a bad row after it had read a good one
C8_Witness ==
    /\ FatalLoad
    /\ csv.exists
    /\ pc = "exit"
    /\ status = 1
    /\ birthdays # <<>>

\* the events in main.py's file that were made for record rec
SingleEvents(rec) ==
    IF OutputIcs \in DOMAIN files
    THEN {p \in 1..Len(files[OutputIcs]) : files[OutputIcs][p].rec = rec}
    ELSE {}

\* C9 as stated: a finished single-conversion run has one file with exactly
\* one yearly-repeating event for every record.
C9_OneEventPerRecord ==
    mode = "single" /\ pc = "exit" /\ status = 0 =>
      /\ Cardinality(DOMAIN files) = 1
      /\ \A rec \in 1..Len(lunar_birthdays) : Cardinality(SingleEvents(rec)) = 1

\* C9, amended: a finished single-conversion run has written exactly one
\* file; every record whose own lunar date has a solar date has exactly one
\* event in it, which starts on that date, ends a day later and repeats
\* yearly; a record whose lunar date does not exist has a warning and no
\* event; the events of the batch pipeline never repeat.
C9_OneEventPerProjectedRecord ==
    /\ mode = "single" /\ pc = "exit" /\ status = 0 =>
         /\ DOMAIN files = {OutputIcs}
         /\ Len(written) = 1
         /\ \A rec \in 1..Len(lunar_birthdays) :
              LET b == lunar_birthdays[rec]
                  key == <<b.year, b.month, b.day>>
              IN  /\ key \in DOMAIN oracle
                  /\ Tries(rec, b.year) = 1
                  /\ key \in DOMAIN oracle /\ oracle[key] = NotExist =>
                       /\ SingleEvents(rec) = {}
                       /\ \E k \in 1..Len(stdout) :
                            stdout[k].kind = "warning" /\ stdout[k].rec = rec
                  /\ key \in DOMAIN oracle /\ oracle[key] # NotExist =>
                       /\ Cardinality(SingleEvents(rec)) = 1
                       /\ \A p \in SingleEvents(rec) :
                            LET e == files[OutputIcs][p]
                            IN  /\ e.rrule
                                /\ e.dtstart = oracle[key]
                                /\ e.dtend = e.dtstart + 1
    /\ Batch =>
         /\ \A p \in 1..Len(cal) : ~cal[p].rrule
         /\ \A path \in DOMAIN files : \A p \in 1..Len(files[path]) : ~files[path][p].rrule

\* a finished single-conversion run of two records, one with an event and one
\* whose date does not exist
C9_Witness ==
    /\ mode = "single" /\ pc = "exit" /\ status = 0
    /\ Len(lunar_birthdays) = 2
    /\ OutputIcs \in DOMAIN files
    /\ Len(files[OutputIcs]) = 1
    /\ files[OutputIcs][1].rrule

\* the pairs whose projection succeeded in the call for the window starting
\* at w, in the order of the attempts
Succeeded(w) ==
    LET ok == SelectSeq(attempts, LAMBDA a : a.win = w /\ a.result # NotExist)
    IN  [p \in 1..Len(ok) |-> <<ok[p].rec, ok[p].year>>]

====
